---------------------------- MODULE Spec2Model ----------------------------
(***************************************************************************)
(* Lambda2api: a relay that drives the lambda.chat conversation flow and   *)
(* re-exposes it as OpenAI chat completions.                               *)
(*                                                                         *)
(* Text is modelled as a sequence of one-character strings.  The upstream  *)
(* wire text uses the real structural characters of JSON that the frame    *)
(* scanner looks at -- the braces, the double quote and the backslash --   *)
(* and abbreviates the member lists the relay reads by one letter each:    *)
(*     s   "type":"stream","token":      (a value follows)                 *)
(*     f   "type":"finalAnswer"                                            *)
(*     k   "type":"status","status":"keepAlive"                            *)
(*     i   "type":"title"                                                  *)
(*     r   "type":"reasoning"                                              *)
(*     x   "type":"other"                (a type the relay does not know)  *)
(* Every abbreviation stands for text with an even number of quotes and no *)
(* brace or backslash, so the scanner leaves it in the state it entered.   *)
(* Inside a JSON string, \u abbreviates the escape \u0000; a and b are     *)
(* ordinary text, n is a line feed between frames.                         *)
(***************************************************************************)
EXTENDS Integers, Sequences, FiniteSets, TLC

(***************************************************************************)
(* Bounds of the model.                                                    *)
(***************************************************************************)
\* pieces of text concatenated into one payload of the extractor harness
MaxPieces == 2
\* frames concatenated into one upstream body of a chat request
MaxFrames == 2

(***************************************************************************)
(* Wire text                                                               *)
(***************************************************************************)
LB == "{"
RB == "}"
QT == "\""
BS == "\\"
\* the decoded character U+0000
NUL == "NUL"
\* the line feed
NL == "\n"

\* a field that is absent (undefined)
Undefined == <<"!undefined">>
\* a token value that is not a string
NotAString == <<"!object">>
\* JSON.parse throwing
ParseError == [type |-> "!error", token |-> Undefined]

KeyType(ch) ==
    CASE ch = "f" -> "finalAnswer"
      [] ch = "k" -> "keepAlive"
      [] ch = "i" -> "title"
      [] ch = "r" -> "reasoning"
      [] ch = "x" -> "other"
      [] OTHER -> "!error"

\* The body of a JSON string literal (between its quotes), decoded; <<"!bad">>
\* when it is no legal string body (a bare quote, an escape JSON does not know,
\* a backslash with nothing after it).
RECURSIVE DecodeBody(_)
DecodeBody(b) ==
    IF b = <<>> THEN <<>>
    ELSE IF b[1] = QT THEN <<"!bad">>
    ELSE IF b[1] = BS THEN
        IF Len(b) < 2 THEN <<"!bad">>
        ELSE LET c == b[2]
                 d == IF c = QT THEN <<QT>>
                      ELSE IF c = BS THEN <<BS>>
                      ELSE IF c = "u" THEN <<NUL>>
                      ELSE <<"!bad">>
                 tl == DecodeBody(SubSeq(b, 3, Len(b)))
             IN  IF d = <<"!bad">> \/ tl = <<"!bad">> THEN <<"!bad">> ELSE d \o tl
    ELSE LET tl == DecodeBody(SubSeq(b, 2, Len(b)))
         IN  IF tl = <<"!bad">> THEN <<"!bad">> ELSE <<b[1]>> \o tl

IsJsonString(v) ==
    /\ Len(v) >= 2
    /\ v[1] = QT
    /\ v[Len(v)] = QT
    /\ DecodeBody(SubSeq(v, 2, Len(v) - 1)) # <<"!bad">>

\* JSON.parse of one candidate text, on the wire grammar
\*     object ::= {} | { f } | { k } | { i } | { r } | { x } | { s value }
\*     value  ::= string | object
RECURSIVE JsonParse(_)
JsonParse(str) ==
    LET n == Len(str) IN
    IF n < 2 \/ str[1] # LB \/ str[n] # RB THEN ParseError
    ELSE IF n = 2 THEN [type |-> "none", token |-> Undefined]
    ELSE IF n = 3 THEN
        IF KeyType(str[2]) = "!error" THEN ParseError
        ELSE [type |-> KeyType(str[2]), token |-> Undefined]
    ELSE IF str[2] # "s" THEN ParseError
    ELSE LET v == SubSeq(str, 3, n - 1) IN
         IF IsJsonString(v)
         THEN [type |-> "stream", token |-> DecodeBody(SubSeq(v, 2, Len(v) - 1))]
         ELSE IF JsonParse(v) # ParseError
         THEN [type |-> "stream", token |-> NotAString]
         ELSE ParseError

(***************************************************************************)
(* extractJsonObjects: one left-to-right scan of the buffer.  Positions    *)
(* are the source's 0-based offsets; buffer[i] there is buffer[i + 1] here.*)
(***************************************************************************)
NoStart == -1

\* buffer.slice(from, to)
Slice(buffer, from, to) == SubSeq(buffer, from + 1, to)

\* an extractor that puts each parsed object in front of the earlier ones
PushParsedInFront(objects, jsonStr) ==
    IF JsonParse(jsonStr) = ParseError THEN objects
    ELSE <<JsonParse(jsonStr)>> \o objects

\* objects.push(JSON.parse(jsonStr)) inside try/catch: a candidate that does
\* not parse is dropped
PushParsed(objects, jsonStr) ==
    IF JsonParse(jsonStr) = ParseError THEN objects
    ELSE Append(objects, JsonParse(jsonStr))

ScanInit == [depth |-> 0, inStr |-> FALSE, escape |-> FALSE, start |-> NoStart,
             objects |-> <<>>]

\* a scanner without the escape flag: a backslash-quote inside a string literal
\* closes the literal
ScanCharNoEscape(st, buffer, i) ==
    LET ch == buffer[i + 1] IN
    IF st.inStr THEN
        IF ch = QT THEN [st EXCEPT !.inStr = FALSE] ELSE st
    ELSE IF ch = QT THEN [st EXCEPT !.inStr = TRUE]
    ELSE IF ch = LB THEN
        [st EXCEPT !.start = IF st.depth = 0 THEN i ELSE @, !.depth = @ + 1]
    ELSE IF ch = RB THEN
        IF st.depth - 1 = 0 /\ st.start # NoStart
        THEN [st EXCEPT !.depth = @ - 1,
                        !.objects = PushParsed(@, Slice(buffer, st.start, i + 1)),
                        !.start = NoStart]
        ELSE [st EXCEPT !.depth = @ - 1]
    ELSE st

\* the body of the for loop, for the character at offset i
ScanChar(st, buffer, i) ==
    LET ch == buffer[i + 1] IN
    IF st.inStr THEN
        IF st.escape THEN [st EXCEPT !.escape = FALSE]
        ELSE IF ch = BS THEN [st EXCEPT !.escape = TRUE]
        ELSE IF ch = QT THEN [st EXCEPT !.inStr = FALSE]
        ELSE st
    ELSE IF ch = QT THEN [st EXCEPT !.inStr = TRUE]
    ELSE IF ch = LB THEN
        [st EXCEPT !.start = IF st.depth = 0 THEN i ELSE @, !.depth = @ + 1]
    ELSE IF ch = RB THEN
        IF st.depth - 1 = 0 /\ st.start # NoStart
        THEN [st EXCEPT !.depth = @ - 1,
                        !.objects = PushParsed(@, Slice(buffer, st.start, i + 1)),
                        !.start = NoStart]
        ELSE [st EXCEPT !.depth = @ - 1]
    ELSE st

\* the scanner state after the characters at offsets 0 .. i - 1
RECURSIVE ScanTo(_, _)
ScanTo(buffer, i) ==
    IF i = 0 THEN ScanInit ELSE ScanChar(ScanTo(buffer, i - 1), buffer, i - 1)

\* a carry-over that is not cut at the open object's start: the whole buffer
\* is kept whenever an object is open
RestKeepAll(buffer, st) ==
    IF st.depth > 0 /\ st.start # NoStart THEN buffer ELSE <<>>

\* const rest = depth > 0 && start !== -1 ? buffer.slice(start) : ""
Rest(buffer, st) ==
    IF st.depth > 0 /\ st.start # NoStart
    THEN Slice(buffer, st.start, Len(buffer))
    ELSE <<>>

extractJsonObjects(buffer) ==
    LET st == ScanTo(buffer, Len(buffer))
    IN  [objects |-> st.objects, rest |-> Rest(buffer, st)]

(***************************************************************************)
(* The extractJsonObjects of the LambdaChat class: the same scan, but the  *)
(* objects are the substrings themselves; its caller parses them.          *)
(***************************************************************************)
ScanCharStrings(st, buffer, i) ==
    LET ch == buffer[i + 1] IN
    IF st.inStr THEN
        IF st.escape THEN [st EXCEPT !.escape = FALSE]
        ELSE IF ch = BS THEN [st EXCEPT !.escape = TRUE]
        ELSE IF ch = QT THEN [st EXCEPT !.inStr = FALSE]
        ELSE st
    ELSE IF ch = QT THEN [st EXCEPT !.inStr = TRUE]
    ELSE IF ch = LB THEN
        [st EXCEPT !.start = IF st.depth = 0 THEN i ELSE @, !.depth = @ + 1]
    ELSE IF ch = RB THEN
        IF st.depth - 1 = 0 /\ st.start # NoStart
        THEN [st EXCEPT !.depth = @ - 1,
                        !.objects = Append(@, Slice(buffer, st.start, i + 1)),
                        !.start = NoStart]
        ELSE [st EXCEPT !.depth = @ - 1]
    ELSE st

RECURSIVE ScanToStrings(_, _)
ScanToStrings(buffer, i) ==
    IF i = 0 THEN ScanInit
    ELSE ScanCharStrings(ScanToStrings(buffer, i - 1), buffer, i - 1)

extractJsonObjectStrings(buffer) ==
    LET st == ScanToStrings(buffer, Len(buffer))
    IN  [objects |-> st.objects,
         rest |-> IF st.depth > 0 /\ st.start # NoStart
                  THEN Slice(buffer, st.start, Len(buffer))
                  ELSE <<>>]

(***************************************************************************)
(* Texts the upstream can send                                             *)
(***************************************************************************)
\* {"type":"stream","token":"a"}
TokA == <<LB, "s", QT, "a", QT, RB>>
\* {"type":"stream","token":"}\"{"}: braces and an escaped quote in the value
TokBrace == <<LB, "s", QT, RB, BS, QT, LB, QT, RB>>
\* {"type":"stream","token":"\\"}: an escaped backslash closes the value
TokEsc == <<LB, "s", QT, BS, BS, QT, RB>>
\* {"type":"stream","token":"\u0000b"}
TokNul == <<LB, "s", QT, BS, "u", "b", QT, RB>>
\* {"type":"stream","token":"\u0000"}
TokNulOnly == <<LB, "s", QT, BS, "u", QT, RB>>
\* {"type":"stream","token":{"type":"other"}}
TokObj == <<LB, "s", LB, "x", RB, RB>>
KeepAlive == <<LB, "k", RB>>
Title == <<LB, "i", RB>>
Reasoning == <<LB, "r", RB>>
Other == <<LB, "x", RB>>
FinalAnswer == <<LB, "f", RB>>
\* {"type":"stream","token":"b"}
TokB == <<LB, "s", QT, "b", QT, RB>>
\* brace-balanced text that JSON.parse rejects
BadJson == <<LB, "a", RB>>

\* the valid JSON objects among them
ValidObjects == {TokA, TokBrace, TokEsc, TokObj}
\* text that is no object: a stray closing brace, a stray quote, a line feed
Strays == {<<RB>>, <<QT>>, <<"n">>}
HarnessPieces == ValidObjects \cup Strays
\* the frames of a chat response body
RelayFrames == {TokA, TokNul, TokNulOnly, TokObj, KeepAlive, Title, Reasoning,
                Other, BadJson, FinalAnswer}

\* the sequences of at most n members of lib
RECURSIVE SeqsUpTo(_, _)
SeqsUpTo(lib, n) ==
    IF n = 0 THEN {<<>>}
    ELSE LET shorter == SeqsUpTo(lib, n - 1)
         IN  shorter \cup {Append(q, x) : q \in shorter, x \in lib}

\* the concatenation of a sequence of texts
RECURSIVE Flat(_)
Flat(texts) ==
    IF texts = <<>> THEN <<>> ELSE Head(texts) \o Flat(Tail(texts))

(***************************************************************************)
(* Configuration (part_001 lines 4-36)                                     *)
(***************************************************************************)
DEFAULT_MODEL == "deepseek-r1"

CANONICAL_MODELS ==
    {"deepseek-llama3.3-70b", "deepseek-r1", "deepseek-r1-0528",
     "apriel-5b-instruct", "hermes-3-llama-3.1-405b-fp8", "hermes3-405b-fp8-128k",
     "llama3.1-nemotron-70b-instruct", "lfm-40b", "llama3.3-70b-instruct-fp8",
     "qwen25-coder-32b-instruct", "deepseek-v3-0324",
     "llama-4-maverick-17b-128e-instruct-fp8", "llama-4-scout-17b-16e-instruct",
     "qwen3-32b-fp8"}

\* an alias maps to one id (isArray FALSE) or to a list of candidates
One(m) == [isArray |-> FALSE, ids |-> <<m>>]
Many(ms) == [isArray |-> TRUE, ids |-> ms]

MODEL_ALIASES ==
    [a \in {"hermes-3", "hermes-3-405b", "nemotron-70b", "llama-3.3-70b",
            "qwen-2.5-coder-32b", "llama-4-maverick", "llama-4-scout", "qwen-3-32b"} |->
        CASE a = "hermes-3" -> One("hermes3-405b-fp8-128k")
          [] a = "hermes-3-405b" ->
                Many(<<"hermes3-405b-fp8-128k", "hermes-3-llama-3.1-405b-fp8">>)
          [] a = "nemotron-70b" -> One("llama3.1-nemotron-70b-instruct")
          [] a = "llama-3.3-70b" -> One("llama3.3-70b-instruct-fp8")
          [] a = "qwen-2.5-coder-32b" -> One("qwen25-coder-32b-instruct")
          [] a = "llama-4-maverick" -> One("llama-4-maverick-17b-128e-instruct-fp8")
          [] a = "llama-4-scout" -> One("llama-4-scout-17b-16e-instruct")
          [] a = "qwen-3-32b" -> One("qwen3-32b-fp8")]

\* a model field that the request body does not have
Absent == "!absent"

\* MODEL_ALIASES is an object literal: MODEL_ALIASES[requested] (line 66)
\* also finds the members it inherits from Object.prototype, which are
\* functions or objects, hence truthy and not arrays
ObjectPrototypeKeys ==
    {"constructor", "toString", "toLocaleString", "valueOf", "hasOwnProperty",
     "isPrototypeOf", "propertyIsEnumerable", "__proto__"}

\* the value of such a member: not a string
InheritedMember == "!inherited"

\* arr[Math.floor(Math.random() * arr.length)]; rnd stands for the random draw
randomChoice(arr, rnd) == arr[(rnd % Len(arr)) + 1]

\* resolveModel; [error |-> TRUE] is the thrown "Model ... not found"
resolveModel(userModel, rnd) ==
    LET requested == IF userModel = Absent \/ userModel = "" THEN DEFAULT_MODEL
                     ELSE userModel
    IN  IF requested \in CANONICAL_MODELS
        THEN [error |-> FALSE, userModel |-> requested, internalModel |-> requested]
        ELSE IF requested \in DOMAIN MODEL_ALIASES
        THEN LET alias == MODEL_ALIASES[requested] IN
             IF alias.isArray
             THEN [error |-> FALSE, userModel |-> requested,
                   internalModel |-> randomChoice(alias.ids, rnd)]
             ELSE [error |-> FALSE, userModel |-> requested,
                   internalModel |-> alias.ids[1]]
        ELSE IF requested \in ObjectPrototypeKeys
        THEN [error |-> FALSE, userModel |-> requested, internalModel |-> InheritedMember]
        ELSE [error |-> TRUE, userModel |-> requested, internalModel |-> ""]

(***************************************************************************)
(* Chat messages.  A content is a string, an array of content parts, some  *)
(* other JSON value, or is missing.                                        *)
(***************************************************************************)
Str(t) == [kind |-> "string", text |-> t, parts |-> <<>>]
Parts(ps) == [kind |-> "array", text |-> <<>>, parts |-> ps]
\* a content that is an object: JSON.stringify gives the text {}
ObjectContent == [kind |-> "object", text |-> <<LB, RB>>, parts |-> <<>>]
\* no content field: JSON.stringify(undefined) is undefined
NoContent == [kind |-> "undefined", text |-> Undefined, parts |-> <<>>]

\* a content part {text: t} and a content part {content: c}
TextPart(t) == [text |-> t, content |-> Undefined]
ContentPart(c) == [text |-> Undefined, content |-> c]

Msg(role, content) == [role |-> role, content |-> content]

Hi == <<"h", "i">>

\* typeof p?.text === "string" ? p.text : p?.content || ""
PartText(part) ==
    IF part.text # Undefined THEN part.text
    ELSE IF part.content # Undefined /\ part.content # <<>> THEN part.content
    ELSE <<>>

RECURSIVE JoinParts(_)
JoinParts(ps) ==
    IF ps = <<>> THEN <<>> ELSE PartText(Head(ps)) \o JoinParts(Tail(ps))

\* the text of one user message's content (lines 105-116)
ContentText(c) ==
    IF c.kind = "string" THEN c.text
    ELSE IF c.kind = "array" THEN JoinParts(c.parts)
    ELSE c.text

\* a scan from the front: the first user message wins
RECURSIVE FirstUserContent(_)
FirstUserContent(messages) ==
    IF messages = <<>> THEN <<>>
    ELSE IF Head(messages).role = "user" THEN ContentText(Head(messages).content)
    ELSE FirstUserContent(Tail(messages))

\* getLastUserContent: a scan from the back for the last message of role user
RECURSIVE getLastUserContent(_)
getLastUserContent(messages) ==
    IF messages = <<>> THEN <<>>
    ELSE LET m == messages[Len(messages)] IN
         IF m.role = "user" THEN ContentText(m.content)
         ELSE getLastUserContent(SubSeq(messages, 1, Len(messages) - 1))

\* !userText
Falsy(t) == t = <<>> \/ t = Undefined

(***************************************************************************)
(* The page data of a conversation, line by line.  A line is a JSON        *)
(* document of type data (its nodes' data items flattened in order), or is *)
(* not; uuid is the first UUID-shaped substring of the line's text, if any.*)
(***************************************************************************)
DataLine(items, uuid) == [isData |-> TRUE, items |-> items, uuid |-> uuid]
TextLine(uuid) == [isData |-> FALSE, items |-> <<>>, uuid |-> uuid]
Item(id, from) == [id |-> id, from |-> from]

\* no identifier found (null)
Null == ""

RECURSIVE FirstSystemId(_)
FirstSystemId(items) ==
    IF items = <<>> THEN Null
    ELSE IF Head(items).id # Null /\ Head(items).from = "system" THEN Head(items).id
    ELSE FirstSystemId(Tail(items))

\* extractFirstUUID over the whole text
RECURSIVE extractFirstUUID(_)
extractFirstUUID(text) ==
    IF text = <<>> THEN Null
    ELSE IF Head(text).uuid # Null THEN Head(text).uuid
    ELSE extractFirstUUID(Tail(text))

RECURSIVE FirstSystemIdInLines(_)
FirstSystemIdInLines(text) ==
    IF text = <<>> THEN Null
    ELSE IF Head(text).isData /\ FirstSystemId(Head(text).items) # Null
    THEN FirstSystemId(Head(text).items)
    ELSE FirstSystemIdInLines(Tail(text))

findMessageIdFromDataText(text) ==
    IF FirstSystemIdInLines(text) # Null THEN FirstSystemIdInLines(text)
    ELSE extractFirstUUID(text)

\* the items of the data lines that pass the test of the first client
\* (part_000 lines 139-144): an id field is present, from is "system"
RECURSIVE SystemItemsWithIdField(_)
SystemItemsWithIdField(items) ==
    IF items = <<>> THEN <<>>
    ELSE IF "id" \in DOMAIN Head(items) /\ Head(items).from = "system"
    THEN <<Head(items)>> \o SystemItemsWithIdField(Tail(items))
    ELSE SystemItemsWithIdField(Tail(items))

RECURSIVE SystemItemsInLines(_)
SystemItemsInLines(text) ==
    IF text = <<>> THEN <<>>
    ELSE (IF Head(text).isData THEN SystemItemsWithIdField(Head(text).items) ELSE <<>>)
         \o SystemItemsInLines(Tail(text))

\* the first client's resolver: the id of the first such item, whatever its
\* value, else the first UUID of the text
extractMessageIdFromDataPage(text) ==
    IF SystemItemsInLines(text) # <<>> THEN Head(SystemItemsInLines(text)).id
    ELSE extractFirstUUID(text)

\* the first client's fetchMessageId throws "Could not extract message id"
fetchMessageIdThrows(text) == extractMessageIdFromDataPage(text) = Null

(***************************************************************************)
(* The read loop's classification of the extracted objects (lines 275-290) *)
(***************************************************************************)
\* obj.token.replace(/\u0000/g, "")
StripNul(token) == SelectSeq(token, LAMBDA c : c # NUL)

IsString(v) == v # Undefined /\ v # NotAString

\* a loop that does not stop at finalAnswer
RECURSIVE IterateNoStop(_)
IterateNoStop(objects) ==
    IF objects = <<>> THEN [tokens |-> <<>>, final |-> FALSE]
    ELSE LET obj == Head(objects)
             more == IterateNoStop(Tail(objects))
         IN  IF obj.type = "stream" /\ IsString(obj.token)
                /\ StripNul(obj.token) # <<>>
             THEN [more EXCEPT !.tokens = <<StripNul(obj.token)>> \o @]
             ELSE more

\* a loop that yields the token as it is parsed
RECURSIVE IterateNoStrip(_)
IterateNoStrip(objects) ==
    IF objects = <<>> THEN [tokens |-> <<>>, final |-> FALSE]
    ELSE LET obj == Head(objects) IN
         IF obj.type = "finalAnswer" THEN [tokens |-> <<>>, final |-> TRUE]
         ELSE LET more == IterateNoStrip(Tail(objects)) IN
              IF obj.type = "stream" /\ IsString(obj.token)
              THEN [more EXCEPT !.tokens = <<obj.token>> \o @]
              ELSE more

\* a loop that ends the stream at any event it does not forward
RECURSIVE IterateStopAtUnknown(_)
IterateStopAtUnknown(objects) ==
    IF objects = <<>> THEN [tokens |-> <<>>, final |-> FALSE]
    ELSE LET obj == Head(objects) IN
         IF obj.type = "stream" /\ IsString(obj.token) /\ StripNul(obj.token) # <<>>
         THEN LET more == IterateStopAtUnknown(Tail(objects))
              IN  [more EXCEPT !.tokens = <<StripNul(obj.token)>> \o @]
         ELSE [tokens |-> <<>>, final |-> TRUE]

\* the for loop over the objects of one chunk: the tokens it yields, in order,
\* and whether it returned at a finalAnswer
RECURSIVE Iterate(_)
Iterate(objects) ==
    IF objects = <<>> THEN [tokens |-> <<>>, final |-> FALSE]
    ELSE LET obj == Head(objects) IN
         IF obj.type = "finalAnswer" THEN [tokens |-> <<>>, final |-> TRUE]
         ELSE LET more == Iterate(Tail(objects)) IN
              IF obj.type = "stream" /\ IsString(obj.token)
                 /\ StripNul(obj.token) # <<>>
              THEN [more EXCEPT !.tokens = <<StripNul(obj.token)>> \o @]
              ELSE more

(***************************************************************************)
(* Envelopes of the event stream (lines 367-415)                           *)
(***************************************************************************)
Envelope(rid, time, model, role, content, finish) ==
    [object |-> "chat.completion.chunk", id |-> rid, created |-> time,
     model |-> model, delta |-> [role |-> role, content |-> content],
     finish_reason |-> finish]

\* role and content are texts, or Undefined when the delta has no such member
roleChunk(rid, time, model) == Envelope(rid, time, model, <<"assistant">>, Undefined, "null")
\* a content envelope that takes an id and a timestamp of its own
dataChunkFresh(rid, time, model, token) ==
    Envelope("fresh", time + 1, model, Undefined, token, "null")
dataChunk(rid, time, model, token) == Envelope(rid, time, model, Undefined, token, "null")
doneData(rid, time, model) == Envelope(rid, time, model, Undefined, Undefined, "stop")
\* data: [DONE]
Sentinel ==
    [object |-> "[DONE]", id |-> "", created |-> 0, model |-> "",
     delta |-> [role |-> Undefined, content |-> Undefined], finish_reason |-> "null"]

\* one content envelope for each token, in order
ContentChunks(rid, time, model, tokens) ==
    [j \in 1 .. Len(tokens) |-> dataChunk(rid, time, model, tokens[j])]

\* Math.floor(d / 1000)
toEpochSec(d) == d \div 1000

(***************************************************************************)
(* State                                                                   *)
(***************************************************************************)
VARIABLES
    request,    \* the chat request: [json, messages, stream, model]
    pc,         \* where the request is: start, create, data, submit, read, end
    gen,        \* the token generator: none, running, returned, thrown
    exit,       \* how the generator left its read loop: final, done, error,
                \* cancel (closed by its consumer at a yield), or not yet
    calls,      \* the upstream calls issued, in order
    succeeded,  \* the bootstrap steps that have succeeded
    readIssued, \* whether reader.read() has been called
    conversationId,
    messageId,
    dataText,   \* the page data read by the second bootstrap step, once read
    locked,     \* whether the reader holds the lock on the response body
    frames,     \* the texts the upstream sends, in order; their concatenation is the body
    pos,        \* how many characters of the body have been delivered by reads
    buffer,     \* the carry-over buffer of the read loop
    yielded,    \* the tokens the generator has yielded, in order
    out,        \* what has been enqueued on the event stream's controller
    ctrl,       \* the event stream: none, open, closed, errored, cancelled
    fullText,   \* the text collected in aggregate mode
    response,   \* the HTTP response: [status, content, finish]; status 0 is none yet
    id,
    created,
    modelResolved,
    userText,
    extracted,  \* harness: every object the loop has taken out of the buffer
    buffer0,    \* harness: the carry-over buffer of the LambdaChat class's loop
    extracted0, \* harness: every object string that loop has taken out
    nfrag,      \* harness: the number of fragments fed (3 stands for three or more)
    loops,      \* the three read loops side by side, each with its buffer, the
                \* tokens it has passed on and whether it has returned
    sessions    \* two requests in progress at once, each with its own locals

relayVars == <<frames, pos, buffer>>
harnessVars == <<extracted, buffer0, extracted0, nfrag, loops, sessions>>
requestVars == <<request, pc, gen, exit, calls, succeeded, readIssued, conversationId, messageId,
                 dataText,
                 locked, yielded, out, ctrl, fullText, response, id, created,
                 modelResolved, userText>>
vars == <<requestVars, relayVars, harnessVars>>

Body == Flat(frames)

\* no second request
NoSessions == <<>>

\* a read loop before its first read: let buffer = ""
NewLoop == [buffer |-> <<>>, tokens |-> <<>>, returned |-> FALSE]
NoLoops == [lambdaChatStream |-> NewLoop, chatCompletion |-> NewLoop,
            handleChatCompletion |-> NewLoop]

NoResponse == [status |-> 0, content |-> <<>>, finish |-> ""]
NoModel == [error |-> FALSE, userModel |-> "", internalModel |-> ""]

(***************************************************************************)
(* The extract-and-carry-over loop on its own:                             *)
(*     buffer += fragment; {objects, rest} = extractJsonObjects(buffer);   *)
(*     buffer = rest                                                       *)
(***************************************************************************)
NoRequest == [json |-> FALSE, messages |-> <<>>, isArray |-> FALSE,
              stream |-> FALSE, model |-> Absent]

RequestIdle ==
    /\ request = NoRequest
    /\ pc = "harness"
    /\ gen = "none"
    /\ exit = ""
    /\ calls = <<>>
    /\ succeeded = {}
    /\ readIssued = FALSE
    /\ conversationId = Null
    /\ messageId = Null
    /\ dataText = <<>>
    /\ locked = FALSE
    /\ yielded = <<>>
    /\ out = <<>>
    /\ ctrl = "none"
    /\ fullText = <<>>
    /\ response = NoResponse
    /\ id = ""
    /\ created = 0
    /\ modelResolved = NoModel
    /\ userText = <<>>

FramesInit ==
    /\ frames \in SeqsUpTo(HarnessPieces, MaxPieces)
    /\ pos = 0
    /\ buffer = <<>>
    /\ extracted = <<>>
    /\ buffer0 = <<>>
    /\ extracted0 = <<>>
    /\ nfrag = 0
    /\ loops = NoLoops
    /\ sessions = NoSessions
    /\ RequestIdle

Feed(n) ==
    LET fragment == SubSeq(Body, pos + 1, pos + n)
        r == extractJsonObjects(buffer \o fragment)
        r0 == extractJsonObjectStrings(buffer0 \o fragment)
    IN
    /\ nfrag' = IF nfrag < 3 THEN nfrag + 1 ELSE nfrag
    /\ pos' = pos + n
    /\ buffer' = r.rest
    /\ extracted' = extracted \o r.objects
    /\ buffer0' = r0.rest
    /\ extracted0' = extracted0 \o r0.objects
    /\ UNCHANGED <<frames, requestVars, loops, sessions>>

FramesNext == \E n \in 0 .. (Len(Body) - pos) : Feed(n)

SpecFrames == FramesInit /\ [][FramesNext]_vars

(***************************************************************************)
(* handleChatCompletions and lambdaChatStream: one chat request            *)
(***************************************************************************)
Req(json, isArray, messages, stream, model) ==
    [json |-> json, isArray |-> isArray, messages |-> messages,
     stream |-> stream, model |-> model]

UserHi == Msg("user", Str(Hi))
SystemHi == Msg("system", Str(Hi))

MessageLists ==
    {<<>>,
     <<SystemHi>>,
     <<UserHi>>,
     <<UserHi, SystemHi>>,
     <<UserHi, Msg("user", Str(<<>>))>>,
     <<Msg("user", Parts(<<TextPart(<<"h">>), ContentPart(<<"i">>)>>))>>,
     <<Msg("user", Parts(<<TextPart(<<>>)>>))>>,
     <<Msg("user", ObjectContent)>>,
     <<Msg("user", NoContent)>>}

Models == {Absent, "", "deepseek-r1", "hermes-3", "hermes-3-405b", "gpt-4", "constructor"}

\* every request of the bootstrap specification
AllRequests ==
    {Req(TRUE, TRUE, ms, st, m) : ms \in MessageLists, st \in BOOLEAN, m \in Models}
    \cup {Req(FALSE, FALSE, <<>>, FALSE, Absent), Req(TRUE, FALSE, <<>>, FALSE, Absent)}

\* the requests of the relay specification: one per render mode, one refused
RelayRequests ==
    {Req(TRUE, TRUE, <<UserHi>>, st, Absent) : st \in BOOLEAN}
    \cup {Req(TRUE, TRUE, <<SystemHi>>, FALSE, Absent)}

\* page data: a system entry; only a UUID in the text; neither; a UUID in the
\* first line and a system entry in the second; a system entry whose id is
\* empty and a UUID in the next line
Pages ==
    {<<DataLine(<<Item("m0", "user"), Item("m1", "system")>>, Null)>>,
     <<TextLine("m2")>>,
     <<DataLine(<<Item("m0", "user")>>, Null), TextLine(Null)>>,
     <<TextLine("m2"), DataLine(<<Item("m1", "system")>>, Null)>>,
     <<DataLine(<<Item(Null, "system")>>, Null), TextLine("m2")>>}

RelayPages ==
    {<<DataLine(<<Item("m1", "system")>>, Null)>>, <<TextLine(Null)>>}

\* response bodies of the submit call, as sequences of frames
RelayBodies == SeqsUpTo(RelayFrames, MaxFrames)
BootBodies == {<<>>, <<TokA>>, <<TokA, FinalAnswer>>}

\* response bodies for the runs in which the consumer may cancel
CancelBodies == SeqsUpTo({TokA, KeepAlive, FinalAnswer}, MaxFrames)

\* the requests of the runs of main.ts's handler: one per outcome of its
\* checks and per render mode
MainRequests ==
    {Req(TRUE, TRUE, <<UserHi>>, st, Absent) : st \in BOOLEAN}
    \cup {Req(TRUE, TRUE, <<UserHi>>, FALSE, "hermes-3-405b"),
          Req(FALSE, FALSE, <<>>, FALSE, Absent),
          Req(TRUE, FALSE, <<>>, FALSE, Absent),
          Req(TRUE, TRUE, <<>>, FALSE, Absent),
          Req(TRUE, TRUE, <<SystemHi>>, TRUE, Absent),
          Req(TRUE, TRUE, <<UserHi>>, FALSE, "gpt-4"),
          Req(TRUE, TRUE, <<UserHi>>, FALSE, "constructor"),
          Req(TRUE, TRUE, <<Msg("user", ObjectContent)>>, FALSE, Absent)}

\* the bodies main.ts's relay is given: events with and without a newline
\* after them
MainBodies ==
    SeqsUpTo({TokA, TokA \o <<NL>>, KeepAlive \o <<NL>>,
              FinalAnswer, FinalAnswer \o <<NL>>}, MaxFrames)

\* the bodies the three read loops are compared on: events, text that is
\* no event, line feeds
LoopBodies ==
    SeqsUpTo(RelayFrames \cup {<<RB>>, <<QT>>, <<NL>>}, MaxFrames)

\* the bodies of two requests in progress at once: the tokens of the first
\* are "a", those of the second are "b"
FirstBodies == SeqsUpTo({TokA, FinalAnswer}, MaxFrames)
SecondBodies == {<<TokB>>, <<TokB, TokB>>}

\* the values of Date.now() during one relay
MainClocks == {1999, 2000}

\* what the environment supplies in a run of the relay specification
\* ("relay"), of the bootstrap specification ("boot"), of the cancellation
\* specification ("cancel") or of main.ts's handler ("main"): the values of
\* crypto.randomUUID() and Date.now(), the page data, the response bodies
RandomUUIDs(run) == IF run = "boot" THEN {"u1", "u2"} ELSE {"u1"}
Clocks(run) == IF run = "boot" THEN {1999, 2000} ELSE {1000}
PagesOf(run) == IF run = "boot" THEN Pages ELSE RelayPages
BodiesOf(run) ==
    IF run = "relay" THEN RelayBodies
    ELSE IF run = "boot" THEN BootBodies
    ELSE CancelBodies

RequestInit(requests) ==
    /\ request \in requests
    /\ pc = "start"
    /\ gen = "none"
    /\ exit = ""
    /\ calls = <<>>
    /\ succeeded = {}
    /\ readIssued = FALSE
    /\ conversationId = Null
    /\ messageId = Null
    /\ dataText = <<>>
    /\ locked = FALSE
    /\ frames = <<>>
    /\ pos = 0
    /\ buffer = <<>>
    /\ yielded = <<>>
    /\ out = <<>>
    /\ ctrl = "none"
    /\ fullText = <<>>
    /\ response = NoResponse
    /\ id = ""
    /\ created = 0
    /\ modelResolved = NoModel
    /\ userText = <<>>
    /\ extracted = <<>>
    /\ buffer0 = <<>>
    /\ extracted0 = <<>>
    /\ nfrag = 0
    /\ loops = NoLoops
    /\ sessions = NoSessions

ErrorResponse(status) == [status |-> status, content |-> <<>>, finish |-> ""]

\* the request passes the checks of lines 325-350
Acceptable(req) ==
    /\ req.json
    /\ req.isArray
    /\ req.messages # <<>>
    /\ ~resolveModel(req.model, 0).error
    /\ ~Falsy(getLastUserContent(req.messages))

\* lines 325-350: any failed check answers 400 at once
RejectRequest ==
    /\ pc = "start"
    /\ ~Acceptable(request)
    /\ response' = ErrorResponse(400)
    /\ pc' = "end"
    /\ UNCHANGED <<request, gen, exit, calls, succeeded, readIssued, conversationId, messageId, dataText,
                   locked, yielded, out, ctrl, fullText, id, created,
                   modelResolved, userText, relayVars, harnessVars>>

\* lines 340-380 and 423-443: the model is resolved, id and created are fixed;
\* in stream mode the event stream is opened with the role envelope and the
\* 200 response is returned; in both modes the generator is started
AcceptRequest(run) ==
    /\ pc = "start"
    /\ Acceptable(request)
    /\ \E rnd \in 0 .. 1, u \in RandomUUIDs(run), d \in Clocks(run) :
          LET m == resolveModel(request.model, rnd) IN
          /\ modelResolved' = m
          /\ userText' = getLastUserContent(request.messages)
          /\ id' = u
          /\ created' = toEpochSec(d)
          /\ IF request.stream
             THEN /\ out' = <<roleChunk(u, toEpochSec(d), m.userModel)>>
                  /\ ctrl' = "open"
                  /\ response' = [status |-> 200, content |-> <<>>, finish |-> ""]
             ELSE UNCHANGED <<out, ctrl, response>>
    /\ gen' = "running"
    /\ pc' = "create"
    /\ UNCHANGED <<request, exit, calls, succeeded, readIssued, conversationId,
                   messageId, dataText, locked, yielded, fullText, relayVars, harnessVars>>

\* a failure that closes the event stream instead of erroring it
ThrowsClosing ==
    /\ gen' = "thrown"
    /\ pc' = "end"
    /\ IF request.stream
       THEN ctrl' = "closed" /\ UNCHANGED response
       ELSE response' = ErrorResponse(502) /\ UNCHANGED ctrl
    /\ UNCHANGED <<yielded, out, fullText>>

\* the generator throws: in stream mode controller.error(err), which does
\* nothing on a stream that was cancelled; in aggregate mode the 502 response
Throws ==
    /\ gen' = "thrown"
    /\ pc' = "end"
    /\ IF request.stream
       THEN /\ ctrl' = IF ctrl = "cancelled" THEN ctrl ELSE "errored"
            /\ UNCHANGED response
       ELSE response' = ErrorResponse(502) /\ UNCHANGED ctrl
    /\ UNCHANGED <<yielded, out, fullText>>

\* a consumer whose aggregate text keeps only the latest tokens
ConsumeOverwriting(tokens) ==
    /\ yielded' = yielded \o tokens
    /\ IF request.stream
       THEN /\ out' = out \o ContentChunks(id, created, modelResolved.userModel, tokens)
            /\ UNCHANGED fullText
       ELSE /\ fullText' = Flat(tokens)
            /\ UNCHANGED out

\* the consumer takes the tokens of one chunk: a content envelope each in
\* stream mode, appended to fullText in aggregate mode
Consume(tokens) ==
    /\ yielded' = yielded \o tokens
    /\ IF request.stream
       THEN /\ out' = out \o ContentChunks(id, created, modelResolved.userModel, tokens)
            /\ UNCHANGED fullText
       ELSE /\ fullText' = fullText \o Flat(tokens)
            /\ UNCHANGED out

\* a completion that closes the stream without the sentinel
ConsumeAndFinishNoSentinel(tokens) ==
    /\ yielded' = yielded \o tokens
    /\ gen' = "returned"
    /\ pc' = "end"
    /\ IF request.stream
       THEN /\ out' = out \o ContentChunks(id, created, modelResolved.userModel, tokens)
                        \o <<doneData(id, created, modelResolved.userModel)>>
            /\ ctrl' = "closed"
            /\ UNCHANGED <<fullText, response>>
       ELSE /\ fullText' = fullText \o Flat(tokens)
            /\ response' = [status |-> 200, content |-> fullText \o Flat(tokens),
                            finish |-> "stop"]
            /\ UNCHANGED <<out, ctrl>>

\* the same, and then the generator completes: the terminal envelope, the
\* sentinel and close() in stream mode, the completion in aggregate mode
ConsumeAndFinish(tokens) ==
    /\ yielded' = yielded \o tokens
    /\ gen' = "returned"
    /\ pc' = "end"
    /\ IF request.stream /\ ctrl = "cancelled"
       THEN \* enqueue(doneData) throws, the catch's controller.error does nothing
            UNCHANGED <<out, ctrl, fullText, response>>
       ELSE IF request.stream
       THEN /\ out' = out \o ContentChunks(id, created, modelResolved.userModel, tokens)
                        \o <<doneData(id, created, modelResolved.userModel), Sentinel>>
            /\ ctrl' = "closed"
            /\ UNCHANGED <<fullText, response>>
       ELSE /\ fullText' = fullText \o Flat(tokens)
            /\ response' = [status |-> 200, content |-> fullText \o Flat(tokens),
                            finish |-> "stop"]
            /\ UNCHANGED <<out, ctrl>>

\* a create step that takes the response without looking for conversationId
CreateConversationUnchecked ==
    /\ pc = "create"
    /\ calls' = Append(calls, "create")
    /\ \E ok \in BOOLEAN, cid \in {Null, "c1"} :
          IF ok
          THEN /\ conversationId' = cid
               /\ succeeded' = succeeded \cup {"create"}
               /\ pc' = "data"
               /\ UNCHANGED <<gen, ctrl, response, yielded, out, fullText>>
          ELSE Throws /\ UNCHANGED <<conversationId, succeeded>>
    /\ UNCHANGED <<request, exit, readIssued, messageId, dataText, locked, id, created,
                   modelResolved, userText, relayVars, harnessVars>>

\* lines 213-226
CreateConversation ==
    /\ pc = "create"
    /\ calls' = Append(calls, "create")
    /\ \E ok \in BOOLEAN, cid \in {Null, "c1"} :
          IF ok /\ cid # Null
          THEN /\ conversationId' = cid
               /\ succeeded' = succeeded \cup {"create"}
               /\ pc' = "data"
               /\ UNCHANGED <<gen, ctrl, response, yielded, out, fullText>>
          ELSE Throws /\ UNCHANGED <<conversationId, succeeded>>
    /\ UNCHANGED <<request, exit, readIssued, messageId, dataText, locked, id, created,
                   modelResolved, userText, relayVars, harnessVars>>

\* lines 229-236
FetchData(run) ==
    /\ pc = "data"
    /\ calls' = Append(calls, "data")
    /\ \E ok \in BOOLEAN, text \in PagesOf(run) :
          /\ dataText' = IF ok THEN text ELSE dataText
          /\ IF ok /\ findMessageIdFromDataText(text) # Null
             THEN /\ messageId' = findMessageIdFromDataText(text)
                  /\ succeeded' = succeeded \cup {"data"}
                  /\ pc' = "submit"
                  /\ UNCHANGED <<gen, ctrl, response, yielded, out, fullText>>
             ELSE Throws /\ UNCHANGED <<messageId, succeeded>>
    /\ UNCHANGED <<request, exit, readIssued, conversationId, locked, id, created,
                   modelResolved, userText, relayVars, harnessVars>>

\* lines 239-263: a refused submit has its body read as text for the error
\* message; an accepted one has its body locked by a reader
SendMessage(run) ==
    /\ pc = "submit"
    /\ \E ok \in BOOLEAN, hasBody \in BOOLEAN, fs \in BodiesOf(run) :
          IF ok /\ hasBody
          THEN /\ calls' = Append(calls, "submit")
               /\ succeeded' = succeeded \cup {"submit"}
               /\ frames' = fs
               /\ locked' = TRUE
               /\ pc' = "read"
               /\ UNCHANGED <<gen, ctrl, response, yielded, out, fullText>>
          ELSE /\ calls' = IF ok THEN Append(calls, "submit")
                           ELSE calls \o <<"submit", "text">>
               /\ Throws
               /\ UNCHANGED <<frames, locked, succeeded>>
    /\ UNCHANGED <<request, exit, readIssued, conversationId, messageId, dataText, id,
                   created, modelResolved, userText, pos, buffer, harnessVars>>

\* a generator that leaves without releasing the reader
keepLock == UNCHANGED locked

\* lines 292-296: finally { reader.releaseLock() }
releaseLock == locked' = FALSE

\* lines 383-397 on a cancelled stream: the generator yields its next token,
\* enqueue throws in the body of for-await, which closes the generator at
\* that yield (its finally block runs); the catch's controller.error does
\* nothing
ConsumerCloses(tokens) ==
    /\ yielded' = Append(yielded, Head(tokens))
    /\ gen' = "returned"
    /\ exit' = "cancel"
    /\ pc' = "end"
    /\ releaseLock
    /\ UNCHANGED <<out, ctrl, fullText, response>>

\* lines 267-290: one chunk is read, the objects are extracted and iterated;
\* each token goes to the consumer; at a finalAnswer the generator returns
ReadChunk ==
    /\ pc = "read"
    /\ \E n \in 0 .. (Len(Body) - pos) :
          LET r == extractJsonObjects(buffer \o SubSeq(Body, pos + 1, pos + n))
              it == Iterate(r.objects)
          IN  /\ pos' = pos + n
              /\ buffer' = r.rest
              /\ IF ctrl = "cancelled" /\ it.tokens # <<>>
                 THEN ConsumerCloses(it.tokens)
                 ELSE IF it.final
                 THEN ConsumeAndFinish(it.tokens) /\ releaseLock /\ exit' = "final"
                 ELSE /\ Consume(it.tokens)
                      /\ UNCHANGED <<gen, exit, pc, ctrl, response, locked>>
    /\ readIssued' = TRUE
    /\ UNCHANGED <<request, calls, succeeded, conversationId, messageId, dataText, id,
                   created, modelResolved, userText, frames, harnessVars>>

\* an end of the upstream body that is taken for a failure
ReadDoneAsFailure ==
    /\ pc = "read"
    /\ readIssued' = TRUE
    /\ locked' = FALSE
    /\ exit' = "done"
    /\ Throws
    /\ UNCHANGED <<request, calls, succeeded, conversationId, messageId, dataText, id,
                   created, modelResolved, userText, relayVars, harnessVars>>

\* line 268: the upstream body ends
ReadDone ==
    /\ pc = "read"
    /\ readIssued' = TRUE
    /\ releaseLock
    /\ exit' = "done"
    /\ ConsumeAndFinish(<<>>)
    /\ UNCHANGED <<request, calls, succeeded, conversationId, messageId, dataText, id,
                   created, modelResolved, userText, relayVars, harnessVars>>

\* line 267: the read rejects
ReadFail ==
    /\ pc = "read"
    /\ readIssued' = TRUE
    /\ releaseLock
    /\ exit' = "error"
    /\ Throws
    /\ UNCHANGED <<request, calls, succeeded, conversationId, messageId, dataText, id,
                   created, modelResolved, userText, relayVars, harnessVars>>

(***************************************************************************)
(* Spec: the relay and the response translator, over every body of at most *)
(* MaxFrames frames.  SpecBoot: the request checks and the bootstrap, over *)
(* every request, with short bodies.                                       *)
(***************************************************************************)
Init == RequestInit(RelayRequests)

Next ==
    \/ RejectRequest
    \/ AcceptRequest("relay")
    \/ CreateConversation
    \/ FetchData("relay")
    \/ SendMessage("relay")
    \/ ReadChunk
    \/ ReadDone
    \/ ReadFail

Spec == Init /\ [][Next]_vars

BootInit == RequestInit(AllRequests)

BootNext ==
    \/ RejectRequest
    \/ AcceptRequest("boot")
    \/ CreateConversation
    \/ FetchData("boot")
    \/ SendMessage("boot")
    \/ ReadChunk
    \/ ReadDone
    \/ ReadFail

SpecBoot == BootInit /\ [][BootNext]_vars

(***************************************************************************)
(* SpecCancel: the relay with a consumer that may cancel the event stream  *)
(* (the client disconnects).  The stream has no cancel callback (lines     *)
(* 362-421), so cancelling only changes the state of the stream.           *)
(***************************************************************************)
Cancel ==
    /\ ctrl = "open"
    /\ ctrl' = "cancelled"
    /\ UNCHANGED <<request, pc, gen, exit, calls, succeeded, readIssued, conversationId,
                   messageId, dataText, locked, yielded, out, fullText, response, id, created,
                   modelResolved, userText, relayVars, harnessVars>>

CancelNext ==
    \/ RejectRequest
    \/ AcceptRequest("cancel")
    \/ CreateConversation
    \/ FetchData("cancel")
    \/ SendMessage("cancel")
    \/ ReadChunk
    \/ ReadDone
    \/ ReadFail
    \/ Cancel

SpecCancel == Init /\ [][CancelNext]_vars

(***************************************************************************)
(* The handler of main.ts (handleChatCompletion), on the same variables:   *)
(* checks, bootstrap and relay are one function there, with one catch that *)
(* answers 500.  It has no generator (gen stays "none") and never releases *)
(* the reader.                                                             *)
(***************************************************************************)
\* getModel (lines 41-55); [error |-> TRUE] is the thrown "Model ... not
\* found"; `model in MODEL_ALIASES` is also true of inherited members
getModel(model, rnd) ==
    IF model \in CANONICAL_MODELS
    THEN [error |-> FALSE, userModel |-> model, internalModel |-> model]
    ELSE IF model \in DOMAIN MODEL_ALIASES
    THEN [error |-> FALSE, userModel |-> model,
          internalModel |-> IF MODEL_ALIASES[model].isArray
                            THEN randomChoice(MODEL_ALIASES[model].ids, rnd)
                            ELSE MODEL_ALIASES[model].ids[1]]
    ELSE IF model \in ObjectPrototypeKeys
    THEN [error |-> FALSE, userModel |-> model, internalModel |-> InheritedMember]
    ELSE [error |-> TRUE, userModel |-> model, internalModel |-> ""]

\* userModel || DEFAULT_MODEL (line 124)
ModelOrDefault(model) == IF model = Absent \/ model = "" THEN DEFAULT_MODEL ELSE model

\* getLastUserMessage (lines 63-70): the content of the last message of role
\* user as it is, the empty string when there is none
RECURSIVE getLastUserMessage(_)
getLastUserMessage(messages) ==
    IF messages = <<>> THEN Str(<<>>)
    ELSE LET m == messages[Len(messages)] IN
         IF m.role = "user" THEN m.content
         ELSE getLastUserMessage(SubSeq(messages, 1, Len(messages) - 1))

\* !userMessage (line 127): an empty string or undefined
NoUserMessage(c) == (c.kind = "string" /\ c.text = <<>>) \/ c.kind = "undefined"

\* the status the checks of lines 114-132 answer with, 0 when they all pass:
\* a body that is not JSON and an unknown model end in the catch (500)
MainCheck(req) ==
    IF ~req.json THEN 500
    ELSE IF ~req.isArray THEN 400
    ELSE IF getModel(ModelOrDefault(req.model), 0).error THEN 500
    ELSE IF NoUserMessage(getLastUserMessage(req.messages)) THEN 400
    ELSE 0

\* the message id of lines 170-205 for page data whose lines hold one node
\* each and whose UUIDs are in lower case: the first system entry with a
\* non-empty id, else the first UUID of the text
MainMessageId(text) ==
    IF FirstSystemIdInLines(text) # Null THEN FirstSystemIdInLines(text)
    ELSE extractFirstUUID(text)

\* buffer.split('\n') and lines.pop() (lines 250-251): the complete lines
\* and the text after the last newline
RECURSIVE SplitLines(_, _)
SplitLines(text, line) ==
    IF text = <<>> THEN [lines |-> <<>>, rest |-> line]
    ELSE IF Head(text) = NL
    THEN LET more == SplitLines(Tail(text), <<>>)
         IN  [more EXCEPT !.lines = <<line>> \o @]
    ELSE SplitLines(Tail(text), Append(line, Head(text)))

\* the for loop over the lines of one chunk (lines 253-272): the tokens it
\* passes on and whether it met a finalAnswer, at which it breaks
RECURSIVE LineLoop(_)
LineLoop(lines) ==
    IF lines = <<>> THEN [tokens |-> <<>>, final |-> FALSE]
    ELSE LET data == JsonParse(Head(lines)) IN
         IF Head(lines) # <<>> /\ data.type = "finalAnswer"
         THEN [tokens |-> <<>>, final |-> TRUE]
         ELSE LET more == LineLoop(Tail(lines)) IN
              IF Head(lines) # <<>> /\ data.type = "stream"
                 /\ IsString(data.token) /\ StripNul(data.token) # <<>>
              THEN [more EXCEPT !.tokens = <<StripNul(data.token)>> \o @]
              ELSE more

\* crypto.randomUUID(): a value no earlier call has returned; the n-th call
\* of a request returns the n-th of these
MainUUIDs == <<"u1", "u2", "u3", "u4", "u5", "u6", "u7", "u8">>

\* the envelopes of out, without the sentinels
MainEnvelopeCount(q) == Len(SelectSeq(q, LAMBDA e : e.object # "[DONE]"))

\* createStreamResponse (lines 73-86) for the n-th envelope of the response:
\* a new id (the first UUID went into the cookie, line 142), the time of the
\* call, the default model whatever the request named
createStreamResponse(n, time, content, finish) ==
    Envelope(MainUUIDs[n + 1], time, DEFAULT_MODEL, Undefined,
             IF finish THEN Undefined ELSE content,
             IF finish THEN "stop" ELSE "null")

MainContentChunks(n, time, tokens) ==
    [j \in 1 .. Len(tokens) |-> createStreamResponse(n + j, time, tokens[j], FALSE)]

\* the catch of lines 326-334
MainThrows ==
    /\ response' = ErrorResponse(500)
    /\ pc' = "end"

\* lines 114-132: a request that fails a check
MainReject ==
    /\ pc = "start"
    /\ MainCheck(request) # 0
    /\ response' = ErrorResponse(MainCheck(request))
    /\ pc' = "end"
    /\ UNCHANGED <<request, gen, exit, calls, succeeded, readIssued, conversationId,
                   messageId, dataText, locked, yielded, out, ctrl, fullText, id,
                   created, modelResolved, userText, relayVars, harnessVars>>

\* lines 124-143: model, user message and cookie of a request that passes
MainAccept ==
    /\ pc = "start"
    /\ MainCheck(request) = 0
    /\ \E rnd \in 0 .. 1 :
          modelResolved' = getModel(ModelOrDefault(request.model), rnd)
    /\ userText' = getLastUserMessage(request.messages)
    /\ pc' = "create"
    /\ UNCHANGED <<request, gen, exit, calls, succeeded, readIssued, conversationId,
                   messageId, dataText, locked, yielded, out, ctrl, fullText,
                   response, id, created, relayVars, harnessVars>>

\* a value that is undefined
UndefinedId == "undefined"

\* lines 146-157: the conversation is created; the id is taken from the body
\* as it is (undefined when the body has none)
MainCreateConversation ==
    /\ pc = "create"
    /\ calls' = Append(calls, "create")
    /\ \E ok \in BOOLEAN, cid \in {Null, "c1"} :
          IF ok
          THEN /\ conversationId' = IF cid = Null THEN UndefinedId ELSE cid
               /\ succeeded' = succeeded \cup {"create"}
               /\ pc' = "data"
               /\ UNCHANGED response
          ELSE MainThrows /\ UNCHANGED <<conversationId, succeeded>>
    /\ UNCHANGED <<request, gen, exit, readIssued, messageId, dataText, locked,
                   yielded, out, ctrl, fullText, id, created, modelResolved,
                   userText, relayVars, harnessVars>>

\* lines 160-209: the page data is read and the message id looked for
MainFetchData ==
    /\ pc = "data"
    /\ calls' = Append(calls, "data")
    /\ \E ok \in BOOLEAN, text \in PagesOf("main") :
          /\ dataText' = IF ok THEN text ELSE dataText
          /\ IF ok /\ MainMessageId(text) # Null
             THEN /\ messageId' = MainMessageId(text)
                  /\ succeeded' = succeeded \cup {"data"}
                  /\ pc' = "submit"
                  /\ UNCHANGED response
             ELSE MainThrows /\ UNCHANGED <<messageId, succeeded>>
    /\ UNCHANGED <<request, gen, exit, readIssued, conversationId, locked, yielded,
                   out, ctrl, fullText, id, created, modelResolved, userText,
                   relayVars, harnessVars>>

\* lines 212-240 and 280-290: the message is sent; in stream mode the event
\* stream is opened and the response returned with the default status
MainSendMessage ==
    /\ pc = "submit"
    /\ calls' = Append(calls, "submit")
    /\ \E ok \in BOOLEAN, fs \in MainBodies :
          IF ok
          THEN /\ succeeded' = succeeded \cup {"submit"}
               /\ frames' = fs
               /\ locked' = TRUE
               /\ pc' = "read"
               /\ IF request.stream
                  THEN /\ ctrl' = "open"
                       /\ response' = [status |-> 200, content |-> <<>>, finish |-> ""]
                  ELSE UNCHANGED <<ctrl, response>>
          ELSE MainThrows /\ UNCHANGED <<frames, locked, succeeded, ctrl>>
    /\ UNCHANGED <<request, gen, exit, readIssued, conversationId, messageId,
                   dataText, yielded, out, fullText, id, created, modelResolved,
                   userText, pos, buffer, harnessVars>>

\* lines 246-272 and 295-319: one chunk is read and its complete lines are
\* handled; a finalAnswer line ends the for loop, not the read loop
MainReadChunk ==
    /\ pc = "read"
    /\ \E n \in 0 .. (Len(Body) - pos), d \in MainClocks :
          LET r == SplitLines(buffer \o SubSeq(Body, pos + 1, pos + n), <<>>)
              it == LineLoop(r.lines)
              k == MainEnvelopeCount(out)
          IN  /\ pos' = pos + n
              /\ buffer' = r.rest
              /\ yielded' = yielded \o it.tokens
              /\ IF request.stream
                 THEN /\ out' = out \o MainContentChunks(k, toEpochSec(d), it.tokens)
                                  \o (IF it.final
                                      THEN <<createStreamResponse(k + Len(it.tokens) + 1,
                                                                  toEpochSec(d), <<>>, TRUE),
                                             Sentinel>>
                                      ELSE <<>>)
                      /\ UNCHANGED fullText
                 ELSE /\ fullText' = fullText \o Flat(it.tokens)
                      /\ UNCHANGED out
    /\ readIssued' = TRUE
    /\ UNCHANGED <<request, gen, exit, pc, calls, succeeded, conversationId, messageId,
                   dataText, locked, ctrl, response, id, created, modelResolved,
                   userText, frames, harnessVars>>

\* lines 247 and 274-276, 296 and 322-324: the upstream body ends; the
\* stream is closed, or the completion is returned
MainReadDone ==
    /\ pc = "read"
    /\ readIssued' = TRUE
    /\ exit' = "done"
    /\ pc' = "end"
    /\ IF request.stream
       THEN ctrl' = "closed" /\ UNCHANGED response
       ELSE /\ response' = [status |-> 200, content |-> fullText, finish |-> "stop"]
            /\ UNCHANGED ctrl
    /\ UNCHANGED <<request, gen, calls, succeeded, conversationId, messageId, dataText,
                   locked, yielded, out, fullText, id, created, modelResolved,
                   userText, relayVars, harnessVars>>

\* a read rejects.  In stream mode finally closes the stream (lines 274-276)
\* and start() then rejects: the stream ends closed when its queue had been
\* drained, errored when chunks were still queued.  In aggregate mode the
\* catch answers 500.
MainReadFail ==
    /\ pc = "read"
    /\ readIssued' = TRUE
    /\ exit' = "error"
    /\ IF request.stream
       THEN /\ \E drained \in BOOLEAN :
                  ctrl' = IF drained \/ out = <<>> THEN "closed" ELSE "errored"
            /\ pc' = "end"
            /\ UNCHANGED response
       ELSE MainThrows /\ UNCHANGED ctrl
    /\ UNCHANGED <<request, gen, calls, succeeded, conversationId, messageId, dataText,
                   locked, yielded, out, fullText, id, created, modelResolved,
                   userText, relayVars, harnessVars>>

MainInit == RequestInit(MainRequests)

MainNext ==
    \/ MainReject
    \/ MainAccept
    \/ MainCreateConversation
    \/ MainFetchData
    \/ MainSendMessage
    \/ MainReadChunk
    \/ MainReadDone
    \/ MainReadFail

SpecMain == MainInit /\ [][MainNext]_vars

(***************************************************************************)
(* The three read loops side by side, fed the same chunks of one body:     *)
(* lambdaChatStream (part_001), LambdaChat.chatCompletion (part_000) and   *)
(* the loop of handleChatCompletion (main.ts).                             *)
(***************************************************************************)
\* part_001 lines 266-290 for one chunk; a loop that has returned reads no
\* more
lambdaChatStreamRead(loop, chunk) ==
    IF loop.returned THEN loop
    ELSE LET r == extractJsonObjects(loop.buffer \o chunk)
             it == Iterate(r.objects)
         IN  [buffer |-> r.rest, tokens |-> loop.tokens \o it.tokens,
              returned |-> it.final]

\* a loop over the object strings that gives up at the first one JSON.parse
\* rejects
RECURSIVE ParseLoopStopAtBad(_)
ParseLoopStopAtBad(objStrs) ==
    IF objStrs = <<>> THEN [tokens |-> <<>>, final |-> FALSE]
    ELSE LET data == JsonParse(Head(objStrs)) IN
         IF data = ParseError THEN [tokens |-> <<>>, final |-> FALSE]
         ELSE IF data.type = "finalAnswer" THEN [tokens |-> <<>>, final |-> TRUE]
         ELSE LET more == ParseLoopStopAtBad(Tail(objStrs)) IN
              IF data.type = "stream" /\ IsString(data.token)
                 /\ StripNul(data.token) # <<>>
              THEN [more EXCEPT !.tokens = <<StripNul(data.token)>> \o @]
              ELSE more

\* part_000 lines 279-307: the for loop over the object strings of one
\* chunk; a string JSON.parse rejects is skipped
RECURSIVE ParseLoop(_)
ParseLoop(objStrs) ==
    IF objStrs = <<>> THEN [tokens |-> <<>>, final |-> FALSE]
    ELSE LET data == JsonParse(Head(objStrs)) IN
         IF data = ParseError THEN ParseLoop(Tail(objStrs))
         ELSE IF data.type = "finalAnswer" THEN [tokens |-> <<>>, final |-> TRUE]
         ELSE LET more == ParseLoop(Tail(objStrs)) IN
              IF data.type = "stream" /\ IsString(data.token)
                 /\ StripNul(data.token) # <<>>
              THEN [more EXCEPT !.tokens = <<StripNul(data.token)>> \o @]
              ELSE more

\* part_000 lines 270-307 for one chunk
chatCompletionRead(loop, chunk) ==
    IF loop.returned THEN loop
    ELSE LET r == extractJsonObjectStrings(loop.buffer \o chunk)
             it == ParseLoop(r.objects)
         IN  [buffer |-> r.rest, tokens |-> loop.tokens \o it.tokens,
              returned |-> it.final]

\* main.ts lines 295-319 for one chunk: the break at a finalAnswer line
\* leaves the for loop, the read loop goes on
handleChatCompletionRead(loop, chunk) ==
    LET r == SplitLines(loop.buffer \o chunk, <<>>)
        it == LineLoop(r.lines)
    IN  [buffer |-> r.rest, tokens |-> loop.tokens \o it.tokens,
         returned |-> FALSE]

RelaysInit ==
    /\ frames \in LoopBodies
    /\ pos = 0
    /\ buffer = <<>>
    /\ extracted = <<>>
    /\ buffer0 = <<>>
    /\ extracted0 = <<>>
    /\ nfrag = 0
    /\ loops = NoLoops
    /\ sessions = NoSessions
    /\ RequestIdle

\* one chunk of the body is read by each loop
ReadAll ==
    /\ \E n \in 0 .. (Len(Body) - pos) :
          LET chunk == SubSeq(Body, pos + 1, pos + n) IN
          /\ pos' = pos + n
          /\ loops' =
                [lambdaChatStream |-> lambdaChatStreamRead(loops.lambdaChatStream, chunk),
                 chatCompletion |-> chatCompletionRead(loops.chatCompletion, chunk),
                 handleChatCompletion |->
                     handleChatCompletionRead(loops.handleChatCompletion, chunk)]
    /\ nfrag' = IF nfrag < 3 THEN nfrag + 1 ELSE nfrag
    /\ UNCHANGED <<frames, buffer, extracted, buffer0, extracted0, requestVars,
                   sessions>>

RelaysNext == ReadAll

SpecRelays == RelaysInit /\ [][RelaysNext]_vars

(***************************************************************************)
(* Two stream requests in progress at once (part_001).  The runtime runs   *)
(* one handler step at a time and may take the steps of the two requests   *)
(* in any order.  Each call of handleChatCompletions has its own id, each  *)
(* call of lambdaChatStream its own cookie jar, reader and buffer.         *)
(***************************************************************************)
\* a cell for `buffer` that all calls of the generator share
SharedBufferCell(i) == 1

\* line 263: let buffer = "" is local to the call, so call i uses cell i
BufferCell(i) == i

NewSession(fs) ==
    [pc |-> "start", id |-> "", jar |-> "", frames |-> fs, pos |-> 0,
     buffer |-> <<>>, tokens |-> <<>>, out |-> <<>>, solo |-> NewLoop]

\* the number of calls of crypto.randomUUID() so far: two per request
\* accepted
UUIDCalls == 2 * Cardinality({j \in DOMAIN sessions : sessions[j].pc # "start"})

\* lines 352-380 and 210: the request gets its id, the stream is opened with
\* the role envelope, the generator starts and makes its cookie jar; no
\* other handler runs in between
TwoAccept(i) ==
    /\ sessions[i].pc = "start"
    /\ sessions' = [sessions EXCEPT ![i] =
          [@ EXCEPT !.pc = "boot",
                    !.id = MainUUIDs[UUIDCalls + 1],
                    !.jar = MainUUIDs[UUIDCalls + 2],
                    !.out = <<roleChunk(MainUUIDs[UUIDCalls + 1], 1, DEFAULT_MODEL)>>]]
    /\ UNCHANGED <<requestVars, relayVars, extracted, buffer0, extracted0, nfrag, loops>>

\* lines 212-261: the three bootstrap calls, sent with the call's own jar
TwoBootstrap(i) ==
    /\ sessions[i].pc = "boot"
    /\ \E ok \in BOOLEAN :
          sessions' = [sessions EXCEPT ![i].pc = IF ok THEN "read" ELSE "end"]
    /\ UNCHANGED <<requestVars, relayVars, extracted, buffer0, extracted0, nfrag, loops>>

\* lines 266-290 and 382-398: one chunk of the request's own body is read
\* into its buffer; its tokens are enqueued under the request's id
TwoRead(i) ==
    /\ sessions[i].pc = "read"
    /\ \E n \in 1 .. (Len(Flat(sessions[i].frames)) - sessions[i].pos) :
          LET me == sessions[i]
              chunk == SubSeq(Flat(me.frames), me.pos + 1, me.pos + n)
              r == lambdaChatStreamRead(
                       [buffer |-> sessions[BufferCell(i)].buffer, tokens |-> <<>>,
                        returned |-> FALSE], chunk)
              mine == [sessions EXCEPT ![i] =
                  [@ EXCEPT !.pos = @ + n,
                            !.tokens = @ \o r.tokens,
                            !.out = @ \o ContentChunks(me.id, 1, DEFAULT_MODEL, r.tokens)
                                      \o (IF r.returned
                                          THEN <<doneData(me.id, 1, DEFAULT_MODEL), Sentinel>>
                                          ELSE <<>>),
                            !.pc = IF r.returned THEN "end" ELSE "read",
                            !.solo = lambdaChatStreamRead(me.solo, chunk)]]
          IN  sessions' = [mine EXCEPT ![BufferCell(i)].buffer = r.buffer]
    /\ UNCHANGED <<requestVars, relayVars, extracted, buffer0, extracted0, nfrag, loops>>

\* lines 268 and 401-416: the request's body ends
TwoDone(i) ==
    /\ sessions[i].pc = "read"
    /\ sessions' = [sessions EXCEPT ![i] =
          [@ EXCEPT !.pc = "end",
                    !.out = @ \o <<doneData(sessions[i].id, 1, DEFAULT_MODEL), Sentinel>>]]
    /\ UNCHANGED <<requestVars, relayVars, extracted, buffer0, extracted0, nfrag, loops>>

TwoInit ==
    /\ sessions \in {<<NewSession(f1), NewSession(f2)>> :
                        f1 \in FirstBodies, f2 \in SecondBodies}
    /\ frames = <<>>
    /\ pos = 0
    /\ buffer = <<>>
    /\ extracted = <<>>
    /\ buffer0 = <<>>
    /\ extracted0 = <<>>
    /\ nfrag = 0
    /\ loops = NoLoops
    /\ RequestIdle

TwoNext ==
    \E i \in 1 .. 2 :
       \/ TwoAccept(i)
       \/ TwoBootstrap(i)
       \/ TwoRead(i)
       \/ TwoDone(i)

SpecTwo == TwoInit /\ [][TwoNext]_vars

(***************************************************************************)
(* Claims about the extract-and-carry-over loop (SpecFrames)               *)
(***************************************************************************)
AllDelivered == pos = Len(Body)

\* the objects of the texts in fs, each parsed on its own
ParsedEach(fs) == [j \in 1 .. Len(fs) |-> JsonParse(fs[j])]

\* C3: a single JSON object whose quoted value holds braces and escaped
\* quotes (or an escaped backslash), fed as two fragments cut at any offset,
\* yields the one object that a single call on the whole string yields.
C3_SplitObjectSameAsWhole ==
    (/\ Len(frames) = 1
     /\ frames[1] \in ValidObjects
     /\ nfrag = 2
     /\ AllDelivered)
    => /\ extractJsonObjects(Body).objects = <<JsonParse(frames[1])>>
       /\ extracted = extractJsonObjects(Body).objects

C3_Witness ==
    /\ frames = <<TokBrace>>
    /\ nfrag = 2
    /\ AllDelivered
    /\ extracted = <<[type |-> "stream", token |-> <<RB, QT, LB>>]>>

\* C4: N valid JSON objects concatenated with no separator, fed in any
\* partition into chunks, yield exactly the N objects in their order, and the
\* carry-over buffer is empty after the last chunk (both extractors).
C4_ConcatenatedObjects ==
    ((\A j \in 1 .. Len(frames) : frames[j] \in ValidObjects) /\ AllDelivered)
    => /\ extracted = ParsedEach(frames)
       /\ buffer = <<>>
       /\ extracted0 = frames
       /\ buffer0 = <<>>

C4_Witness ==
    /\ Len(frames) = MaxPieces
    /\ \A j \in 1 .. Len(frames) : frames[j] \in ValidObjects
    /\ frames[1] # frames[2]
    /\ nfrag = 3
    /\ AllDelivered
    /\ Len(extracted) = MaxPieces
    /\ Len(extracted0) = MaxPieces

\* C5: for any payload, stray closing braces and stray quotes included, the
\* objects extracted are the same for every chunking of the payload, that is,
\* the same as for the payload fed as one chunk.
C5_ChunkingIndependent ==
    AllDelivered => extracted = extractJsonObjects(Body).objects

(***************************************************************************)
(* What the body holds, frame by frame                                     *)
(***************************************************************************)
\* the offset at which the j-th frame ends in the body
EndOffset(j) == Len(Flat(SubSeq(frames, 1, j)))

\* the number of leading frames delivered completely
DeliveredCount ==
    CHOOSE k \in 0 .. Len(frames) :
        /\ EndOffset(k) <= pos
        /\ k < Len(frames) => EndOffset(k + 1) > pos

\* the index of the first finalAnswer frame (past the end when there is none)
FirstFinal ==
    IF \E j \in 1 .. Len(frames) : frames[j] = FinalAnswer
    THEN CHOOSE j \in 1 .. Len(frames) :
            /\ frames[j] = FinalAnswer
            /\ \A h \in 1 .. (j - 1) : frames[h] # FinalAnswer
    ELSE Len(frames) + 1

FinalDelivered == FirstFinal <= DeliveredCount

\* the frames whose events the relay has had to handle: those delivered, up to
\* the first finalAnswer
Handled == IF FinalDelivered THEN FirstFinal - 1 ELSE DeliveredCount

\* the token each frame stands for: "a" for TokA, "b" for TokNul (its NUL
\* removed), none for every other frame
TokenOf(f) ==
    IF f = TokA THEN <<<<"a">>>>
    ELSE IF f = TokNul THEN <<<<"b">>>>
    ELSE <<>>

ExpectedTokens == Flat([j \in 1 .. Handled |-> TokenOf(frames[j])])

Ignorable == {KeepAlive, Title, Reasoning, Other, BadJson}

IsContent(e) == e.object = "chat.completion.chunk" /\ e.delta.content # Undefined
IsTerminal(e) ==
    /\ e.object = "chat.completion.chunk"
    /\ e.delta.role = Undefined
    /\ e.delta.content = Undefined
    /\ e.finish_reason = "stop"

Count(q, P(_)) == Cardinality({j \in 1 .. Len(q) : P(q[j])})

\* the delta.content values of the content envelopes, in order
Deltas(q) ==
    LET c == SelectSeq(q, IsContent) IN [j \in 1 .. Len(c) |-> c[j].delta.content]

(***************************************************************************)
(* Claims about the relay and the response translator (Spec)               *)
(***************************************************************************)
\* C1: once a finalAnswer object has been delivered, the generator has ended
\* successfully, no token of any object behind the finalAnswer has been
\* yielded (whether it came in the same chunk or would come later), and from
\* then on nothing more is read from the upstream.
C1_StopsAtFinalAnswer ==
    /\ [](FinalDelivered =>
            /\ gen = "returned"
            /\ exit = "final"
            /\ ~locked
            /\ yielded = ExpectedTokens
            /\ request.stream => ctrl = "closed"
            /\ ~request.stream => response.status = 200)
    /\ [][FinalDelivered => UNCHANGED <<pos, buffer, yielded, readIssued>>]_vars

C1_Witness ==
    /\ frames = <<FinalAnswer, TokA>>
    /\ pos = Len(Body)
    /\ gen = "returned"
    /\ yielded = <<>>

\* C2: in stream mode, when the generator completes normally, the stream
\* holds the role envelope, then one content envelope per yielded token in
\* order, then exactly one terminal envelope (empty delta, "stop"), then
\* exactly one [DONE] sentinel as its last item; it is closed and nothing is
\* enqueued afterwards.
C2_StreamEndsWithStopAndDone ==
    /\ []((request.stream /\ gen = "returned") =>
            /\ ctrl = "closed"
            /\ Len(out) = Len(yielded) + 3
            /\ Deltas(out) = yielded
            /\ \A j \in 1 .. Len(yielded) :
                  IsContent(out[j + 1]) /\ out[j + 1].finish_reason = "null"
            /\ Count(out, IsTerminal) = 1
            /\ IsTerminal(out[Len(out) - 1])
            /\ Count(out, LAMBDA e : e = Sentinel) = 1
            /\ out[Len(out)] = Sentinel)
    /\ [][ctrl = "closed" => out' = out]_vars

C2_Witness ==
    /\ request.stream
    /\ gen = "returned"
    /\ yielded = <<<<"a">>, <<"b">>>>
    /\ ctrl = "closed"
    /\ Len(out) = 5

\* C6: for the token sequence the relay yields, the content of the aggregate
\* completion and the concatenation of the stream's delta.content values are
\* the same text: the concatenation of the yielded tokens.
C6_AggregateEqualsDeltas ==
    /\ (~request.stream /\ response.status = 200) =>
            /\ response.content = Flat(yielded)
            /\ response.finish = "stop"
    /\ request.stream => Flat(Deltas(out)) = Flat(yielded)

C6_Witness ==
    /\ ~request.stream
    /\ response.status = 200
    /\ Len(yielded) = 2
    /\ exit = "done"
    /\ response.content = <<"a", "b">>

\* C7: every yielded token is non-empty and holds no NUL; a stream event's
\* token is yielded with its NULs removed; a stream event whose token is
\* empty after stripping, or is not a string, yields nothing and does not end
\* the stream.
C7_TokensStripped ==
    /\ \A j \in 1 .. Len(yielded) :
          /\ yielded[j] # <<>>
          /\ \A h \in 1 .. Len(yielded[j]) : yielded[j][h] # NUL
    /\ (\A j \in 1 .. Handled : frames[j] \in {TokA, TokNul, TokNulOnly, TokObj})
          => /\ yielded = ExpectedTokens
             /\ gen = "returned" => exit \in {"final", "done"} /\ (exit = "final" <=> FinalDelivered)

C7_Witness ==
    /\ frames = <<TokNulOnly, TokNul>>
    /\ pos = Len(Body)
    /\ yielded = <<<<"b">>>>
    /\ gen = "running"

\* C8: keepAlive, title, reasoning and unknown events, and brace-balanced
\* candidates that do not parse, yield no token and neither end nor abort the
\* relay: every stream token behind them, up to a finalAnswer or the end of
\* the upstream, is still yielded.
C8_IgnoredEventsDoNotStop ==
    (\E j \in 1 .. Handled : frames[j] \in Ignorable)
    => /\ yielded = ExpectedTokens
       /\ gen = "returned" => (exit = "done" \/ (exit = "final" /\ FinalDelivered))
       /\ gen = "thrown" => exit = "error"
       /\ gen = "running" => pc = "read"

C8_Witness ==
    /\ frames = <<BadJson, TokA>>
    /\ pos = Len(Body)
    /\ yielded = <<<<"a">>>>
    /\ gen = "running"

(***************************************************************************)
(* Claims about the request checks and the bootstrap (SpecBoot)            *)
(***************************************************************************)
BootCalls == SelectSeq(calls, LAMBDA c : c # "text")

\* C9: the bootstrap issues create, data, submit in this order, each at most
\* once; a call is issued only after the one before it succeeded; the body is
\* read by the reader only after the submit succeeded; once a step has failed
\* there is no further call and no read.  (The text of a refused submit is
\* read as part of that failing step.)
C9_BootstrapInOrder ==
    /\ [](/\ BootCalls = SubSeq(<<"create", "data", "submit">>, 1, Len(BootCalls))
          /\ \A j \in 2 .. Len(BootCalls) : BootCalls[j - 1] \in succeeded
          /\ "create" \in succeeded => conversationId # Null
          /\ "data" \in succeeded => messageId # Null
          /\ (readIssued \/ locked \/ pos > 0) => "submit" \in succeeded
          /\ \A j \in 1 .. Len(calls) : calls[j] = "text" =>
                 j = Len(calls) /\ j > 1 /\ calls[j - 1] = "submit"
                 /\ "submit" \notin succeeded)
    /\ [][gen = "thrown" => UNCHANGED <<calls, readIssued, pos, succeeded>>]_vars
    /\ [][Len(calls') <= Len(calls) + 2 /\ SubSeq(calls', 1, Len(calls)) = calls]_vars

C9_Witness ==
    /\ calls = <<"create", "data", "submit">>
    /\ succeeded = {"create", "data", "submit"}
    /\ readIssued
    /\ pos > 0
    /\ gen = "returned"

\* C10: a request whose messages hold no entry of role user, or whose last
\* user entry has no text, is answered 400, and no upstream call is issued
\* for it.
HasUser(ms) == \E j \in 1 .. Len(ms) : ms[j].role = "user"
LastUser(ms) ==
    ms[CHOOSE j \in 1 .. Len(ms) :
          ms[j].role = "user" /\ \A h \in (j + 1) .. Len(ms) : ms[h].role # "user"]
NoText(c) ==
    \/ c.kind = "string" /\ c.text = <<>>
    \/ c.kind = "array" /\ \A j \in 1 .. Len(c.parts) : PartText(c.parts[j]) = <<>>
    \/ c.kind = "undefined"
NoUserText(ms) == ~HasUser(ms) \/ NoText(LastUser(ms).content)

BootstrapFailed == gen = "thrown" /\ "submit" \notin succeeded

\* C11: in both render modes, a bootstrap that fails (a non-success status
\* at create, data or submit, no conversationId, no seed message id) is
\* answered with HTTP 502, and no 200 response is produced for the request.
C11_BootstrapFailureIs502 ==
    BootstrapFailed => response.status = 502

\* the same for aggregate mode alone
C11_AggregateFailureIs502 ==
    (BootstrapFailed /\ ~request.stream) => response.status = 502

\* a read of the upstream body has failed in stream mode
ReadFailed == request.stream /\ exit = "error"

\* C12: in stream mode, when a read of the upstream body fails after the
\* stream has started, the event stream is errored: no terminal envelope and
\* no [DONE] sentinel has been or is ever enqueued, and the stream is never
\* closed.
C12_ReadFailureErrorsStream ==
    /\ [](ReadFailed =>
            /\ gen = "thrown"
            /\ ctrl = "errored"
            /\ Count(out, IsTerminal) = 0
            /\ Count(out, LAMBDA e : e = Sentinel) = 0
            /\ Deltas(out) = yielded)
    /\ [][ReadFailed => (ReadFailed' /\ ctrl' = ctrl /\ out' = out)]_vars

C12_Witness ==
    /\ ReadFailed
    /\ Len(yielded) = 1
    /\ Len(out) = 2
    /\ ctrl = "errored"
    /\ pos < Len(Body)

\* C13: when the upstream body ends before any finalAnswer, the generator
\* completes normally, having yielded every token of the complete frames
\* received; aggregate mode answers 200 with those tokens concatenated and
\* finish_reason "stop"; stream mode still ends with the terminal envelope
\* and the sentinel, and is closed.
C13_EndOfBodyIsNormal ==
    exit = "done" =>
        /\ gen = "returned"
        /\ ~FinalDelivered
        /\ ~locked
        /\ yielded = ExpectedTokens
        /\ ~request.stream =>
              response = [status |-> 200, content |-> Flat(ExpectedTokens),
                          finish |-> "stop"]
        /\ request.stream =>
              /\ ctrl = "closed"
              /\ Deltas(out) = ExpectedTokens
              /\ Len(out) = Len(ExpectedTokens) + 3
              /\ IsTerminal(out[Len(out) - 1])
              /\ out[Len(out)] = Sentinel

C13_Witness ==
    /\ exit = "done"
    /\ frames = <<TokA, TokNul>>
    /\ pos = EndOffset(1) + 1
    /\ buffer # <<>>
    /\ ~request.stream
    /\ response.status = 200
    /\ response.content = <<"a">>

(***************************************************************************)
(* Claims about the order of the tokens (Spec)                             *)
(***************************************************************************)
\* C14: for every chunking of the upstream bytes, the tokens yielded are, in
\* frame order, the non-empty stripped tokens of the stream frames received
\* before the first finalAnswer, none reordered, repeated or left out; the
\* response translator has them in that order, and what has been yielded is
\* only ever extended.
C14_TokensInFrameOrder ==
    /\ [](/\ yielded = ExpectedTokens
          /\ request.stream => Deltas(out) = ExpectedTokens
          /\ ~request.stream => fullText = Flat(ExpectedTokens))
    /\ [][/\ Len(yielded') >= Len(yielded)
          /\ SubSeq(yielded', 1, Len(yielded)) = yielded]_vars

C14_Witness ==
    /\ frames = <<TokNul, TokA>>
    /\ pos = Len(Body)
    /\ buffer = <<>>
    /\ yielded = <<<<"b">>, <<"a">>>>
    /\ request.stream
    /\ Deltas(out) = <<<<"b">>, <<"a">>>>

(***************************************************************************)
(* Claims about cancellation and the reader's lock (SpecCancel)            *)
(***************************************************************************)
\* C15: once the consumer has cancelled the event stream, the relay issues no
\* further read of the upstream body, whatever the upstream sends (the read
\* already pending may still deliver its bytes, but the loop does not go on
\* to wait on another read), and when the request has ended the reader is
\* released.
C15_NoReadAfterCancel ==
    /\ [][(ctrl = "cancelled" /\ pc = "read" /\ pos' > pos) => pc' # "read"]_vars
    /\ []((ctrl = "cancelled" /\ pc = "end") => ~locked)

\* C16: once the generator holds the reader of the upstream body, the reader
\* is released on every exit path: end of the upstream, return at a
\* finalAnswer, a read that throws, and the consumer closing the generator at
\* a yield.  The lock is held only while the read loop runs.
C16_ReaderReleasedOnEveryExit ==
    /\ exit \in {"", "final", "done", "error", "cancel"}
    /\ exit # "" => (~locked /\ pc = "end" /\ gen \in {"returned", "thrown"})
    /\ gen \in {"returned", "thrown"} => ~locked
    /\ locked => (pc = "read" /\ gen = "running" /\ "submit" \in succeeded)
    /\ pc = "read" => locked

C16_Witness ==
    /\ exit = "cancel"
    /\ ctrl = "cancelled"
    /\ readIssued
    /\ ~locked
    /\ yielded = <<<<"a">>>>
    /\ out = <<roleChunk(id, created, modelResolved.userModel)>>

(***************************************************************************)
(* Claims about the envelopes of one response (SpecBoot)                   *)
(***************************************************************************)
\* the envelopes on the stream: everything enqueued but the sentinel
EnvelopesOf(q) == SelectSeq(q, LAMBDA e : e # Sentinel)

\* C17: the role envelope, every content envelope and the terminal envelope
\* of one stream response carry the same id and the same created timestamp,
\* which are those fixed when the request was accepted and never change once
\* the first envelope has been enqueued.
C17_OneIdOneTimestamp ==
    /\ [](\A j \in 1 .. Len(EnvelopesOf(out)) :
             /\ EnvelopesOf(out)[j].id = id
             /\ EnvelopesOf(out)[j].created = created)
    /\ [][out # <<>> => (id' = id /\ created' = created)]_vars

C17_Witness ==
    /\ request.stream
    /\ ctrl = "closed"
    /\ Len(EnvelopesOf(out)) = 3
    /\ IsContent(out[2])
    /\ IsTerminal(out[3])
    /\ id = "u2"
    /\ created = 1

(***************************************************************************)
(* Claims about the seed message id                                        *)
(***************************************************************************)
\* the entries of the page data whose from is "system", in order
RECURSIVE SystemEntries(_)
SystemEntries(text) ==
    IF text = <<>> THEN <<>>
    ELSE SelectSeq(Head(text).items, LAMBDA it : it.from = "system")
         \o SystemEntries(Tail(text))

\* the page data has been read and the second bootstrap step is over
PageRead == dataText # <<>> /\ pc # "data"

\* the second bootstrap step failed on the page it read
FailedAtPage == PageRead /\ gen = "thrown" /\ "data" \notin succeeded

\* C19: the seed message id is resolved in two stages of fixed priority: an
\* entry with from == "system" in any line gives its id, even when a UUID
\* occurs earlier in the text; the first UUID is used only when no such
\* entry exists; the bootstrap fails, without a submit call, exactly when
\* neither stage yields an identifier; both resolvers follow this.
C19_TwoStagePriority ==
    PageRead =>
       /\ (SystemEntries(dataText) # <<>> /\ ~FailedAtPage)
             => messageId = Head(SystemEntries(dataText)).id
       /\ (messageId = extractFirstUUID(dataText) /\ messageId # Null)
             => \/ SystemEntries(dataText) = <<>>
                \/ Head(SystemEntries(dataText)).id = messageId
       /\ FailedAtPage <=> (findMessageIdFromDataText(dataText) = Null)
       /\ FailedAtPage => (\A j \in 1 .. Len(calls) : calls[j] # "submit")
       /\ fetchMessageIdThrows(dataText)
             <=> (findMessageIdFromDataText(dataText) = Null)

\* the same with "entry" read as an entry with from == "system" and a
\* non-empty id, for the resolver of the relay alone
C19_NonEmptyIdPriority ==
    PageRead =>
       /\ (FirstSystemIdInLines(dataText) # Null)
             => messageId = FirstSystemIdInLines(dataText)
       /\ (FirstSystemIdInLines(dataText) = Null /\ ~FailedAtPage)
             => messageId = extractFirstUUID(dataText)
       /\ FailedAtPage
             <=> (FirstSystemIdInLines(dataText) = Null
                  /\ extractFirstUUID(dataText) = Null)
       /\ FailedAtPage => (\A j \in 1 .. Len(calls) : calls[j] # "submit")

(***************************************************************************)
(* Claims about the resolution of the model id                             *)
(***************************************************************************)
\* the ids the claim lets through: none, a canonical id, an alias
KnownModelId(m) ==
    m \in {Absent, ""} \cup CANONICAL_MODELS \cup DOMAIN MODEL_ALIASES

\* the set of ids an alias lists
Candidates(a) == {MODEL_ALIASES[a].ids[j] : j \in 1 .. Len(MODEL_ALIASES[a].ids)}

\* the request has passed the checks on its body and on its messages
WellFormed == request.json /\ request.isArray /\ ~NoUserText(request.messages)

\* C20: resolveModel returns a member of the canonical model set or fails:
\* no id or an empty one gives the default model, a canonical id itself, an
\* alias with one value that value, an alias with several values one of
\* them; every other non-empty id fails, is answered 400, and no upstream
\* call is issued for it.
C20_CanonicalOrNotFound ==
    /\ gen # "none" =>
          /\ modelResolved.internalModel \in CANONICAL_MODELS
          /\ request.model \in {Absent, ""}
                => modelResolved.internalModel = DEFAULT_MODEL
          /\ request.model \in CANONICAL_MODELS
                => modelResolved.internalModel = request.model
          /\ request.model \in DOMAIN MODEL_ALIASES
                => modelResolved.internalModel \in Candidates(request.model)
    /\ (WellFormed /\ ~KnownModelId(request.model))
          => /\ calls = <<>>
             /\ gen = "none"
             /\ pc = "end" => response.status = 400

\* the same for the ids that are not names of Object.prototype members
C20_ExceptInheritedNames ==
    request.model \notin ObjectPrototypeKeys => C20_CanonicalOrNotFound

(***************************************************************************)
(* Claims about a create response without conversationId                   *)
(***************************************************************************)
\* the create call succeeded and its body had no conversationId: the id the
\* handler of main.ts goes on with is undefined
CreatedWithoutId == conversationId = UndefinedId

\* C18: when the create-conversation response succeeds but its JSON body has
\* no conversationId, the bootstrap fails at that step: the page data is not
\* read and the submit call is not issued.
C18_NoIdStopsBootstrap ==
    CreatedWithoutId =>
       /\ \A j \in 1 .. Len(calls) : calls[j] \notin {"data", "submit"}
       /\ pc = "end" => (calls = <<"create">> /\ response.status \notin {0, 200})

\* the same for the relay of part_001, where a create step that has not
\* succeeded (a non-success status or no conversationId) is the last call
C18_RelayStopsAtCreate ==
    (calls # <<>> /\ "create" \notin succeeded)
    => (calls = <<"create">> /\ pc = "end" /\ gen = "thrown")

(***************************************************************************)
(* Claims about the scan itself (SpecFrames)                               *)
(***************************************************************************)
\* the payload has been scanned in one call, as one fragment
ScannedWhole == nfrag = 1 /\ AllDelivered

\* C21: during a scan by extractJsonObjects, over any input text, the depth
\* counter is never negative (in either copy of the extractor).
C21_DepthNeverNegative ==
    ScannedWhole =>
       \A i \in 0 .. Len(Body) :
          /\ ScanTo(Body, i).depth >= 0
          /\ ScanToStrings(Body, i).depth >= 0

\* the same for payloads in which every closing brace outside a string
\* literal has an opening brace before it: there the counter stays at 0 or
\* above
Balanced(text) ==
    \A i \in 1 .. Len(text) :
       (text[i] = RB /\ ~ScanTo(text, i - 1).inStr) => ScanTo(text, i - 1).depth > 0

C21_DepthOfBalancedText ==
    (ScannedWhole /\ Balanced(Body)) =>
       \A i \in 0 .. Len(Body) : ScanTo(Body, i).depth >= 0

\* the text u is the end of the text t
IsSuffix(u, t) ==
    Len(u) <= Len(t) /\ u = SubSeq(t, Len(t) - Len(u) + 1, Len(t))

\* what extractJsonObjects may return as the remainder of input: nothing, or
\* the end of input from an opening brace that stands outside any string
\* literal at depth 0 and after which the depth stays above 0; nothing when
\* the scan ends at depth 0
RemainderOf(rest, input) ==
    LET k == Len(input) - Len(rest) IN
    /\ IsSuffix(rest, input)
    /\ ScanTo(input, Len(input)).depth = 0 => rest = <<>>
    /\ rest # <<>> =>
          /\ Head(rest) = LB
          /\ ~ScanTo(input, k).inStr
          /\ ScanTo(input, k).depth = 0
          /\ \A i \in (k + 1) .. Len(input) : ScanTo(input, i).depth > 0

\* C22: after every call of extractJsonObjects the remainder is a suffix of
\* the input that is empty or begins with an unmatched opening brace found
\* outside any string literal; it is empty whenever the scan ends with
\* depth 0 and holds no text from before that brace, so the carry-over
\* buffer holds at most the bytes of one unterminated object (in either copy
\* of the extractor).
C22_RemainderIsOneOpenObject ==
    [][\A n \in 0 .. (Len(Body) - pos) :
          Feed(n) =>
             /\ RemainderOf(buffer', buffer \o SubSeq(Body, pos + 1, pos + n))
             /\ RemainderOf(buffer0', buffer0 \o SubSeq(Body, pos + 1, pos + n))
             /\ extractJsonObjects(buffer').objects = <<>>
             /\ extractJsonObjectStrings(buffer0').objects = <<>>]_vars

\* a stray brace and a complete object have gone, the open object is kept
C22_Witness ==
    /\ frames = <<<<RB>>, TokBrace>>
    /\ nfrag = 2
    /\ pos = 4
    /\ buffer = SubSeq(TokBrace, 1, 3)

\* the payload is stray text (a line feed or a closing brace) followed by
\* complete objects
StrayThenObjects(strays) ==
    /\ Len(frames) >= 2
    /\ frames[1] \in strays
    /\ \A j \in 2 .. Len(frames) : frames[j] \in ValidObjects

\* C23: text that precedes an object while depth is 0 (white space, line
\* feeds, stray characters, a stray closing brace among them) is dropped and
\* every complete top-level object after it in the same buffer is emitted
\* (by either copy of the extractor).
C23_StrayTextIsDropped ==
    (ScannedWhole /\ StrayThenObjects({<<"n">>, <<RB>>}))
    => /\ extracted = ParsedEach(Tail(frames))
       /\ extracted0 = Tail(frames)
       /\ buffer = <<>>
       /\ buffer0 = <<>>

\* the same for stray text that holds no closing brace and no quote
C23_PlainTextIsDropped ==
    (ScannedWhole /\ StrayThenObjects({<<"n">>}))
    => /\ extracted = ParsedEach(Tail(frames))
       /\ extracted0 = Tail(frames)
       /\ buffer = <<>>
       /\ buffer0 = <<>>

(***************************************************************************)
(* Claims about the three read loops (SpecRelays)                          *)
(***************************************************************************)
\* C25: the relay of part_000 (the extractor returns substrings, the loop
\* parses them) and the relay of part_001 (the extractor parses) yield the
\* same tokens in the same order and stop at the same point, for every
\* sequence of chunks.
C25_SameTokensSameStop ==
    /\ loops.chatCompletion.tokens = loops.lambdaChatStream.tokens
    /\ loops.chatCompletion.returned = loops.lambdaChatStream.returned
    /\ loops.chatCompletion.buffer = loops.lambdaChatStream.buffer

\* a brace-balanced text that JSON.parse rejects and a token event have been
\* read in two chunks; both loops have skipped the one and passed on the other
C25_Witness ==
    /\ frames = <<BadJson, TokA>>
    /\ nfrag = 2
    /\ AllDelivered
    /\ loops.chatCompletion.tokens = <<<<"a">>>>
    /\ loops.chatCompletion.buffer = <<>>

\* C26: the newline-splitting loop of main.ts passes on, for every sequence
\* of chunks, the same tokens in the same order as the brace-balancing loop
\* of part_001; events that follow each other without a line feed, read as
\* one chunk, give their tokens up to the finalAnswer.
C26_SameTokensAsBraceRelay ==
    AllDelivered =>
       loops.handleChatCompletion.tokens = loops.lambdaChatStream.tokens

\* the same for a body of one event and a line feed after it
C26_OneTerminatedLine ==
    (AllDelivered /\ Len(frames) = 2 /\ frames[1] \in RelayFrames
     /\ frames[2] = <<NL>>)
    => loops.handleChatCompletion.tokens = loops.lambdaChatStream.tokens

(***************************************************************************)
(* Claims about the event stream of main.ts (SpecMain)                     *)
(***************************************************************************)
\* the relay of a stream request has ended
MainStreamEnded == request.stream /\ pc = "end" /\ "submit" \in succeeded

\* C27: whatever the upstream sends, the stream response of main.ts holds
\* exactly one terminal envelope (empty delta, "stop"), immediately followed
\* by exactly one [DONE] sentinel as its last item; all its envelopes carry
\* one id and one created timestamp; no content envelope is enqueued after a
\* finalAnswer event has been handled.
C27_MainStreamWellFormed ==
    /\ MainStreamEnded =>
          /\ Len(out) >= 2
          /\ Count(out, IsTerminal) = 1
          /\ Count(out, LAMBDA e : e = Sentinel) = 1
          /\ IsTerminal(out[Len(out) - 1])
          /\ out[Len(out)] = Sentinel
    /\ \A j, k \in 1 .. Len(EnvelopesOf(out)) :
          /\ EnvelopesOf(out)[j].id = EnvelopesOf(out)[k].id
          /\ EnvelopesOf(out)[j].created = EnvelopesOf(out)[k].created
    /\ \A j, k \in 1 .. Len(out) :
          (j < k /\ IsTerminal(out[j])) => ~IsContent(out[k])

\* what does hold of that stream: a terminal envelope has the sentinel
\* right after it, and nothing is enqueued once the relay has ended
C27_StopThenSentinel ==
    /\ [](\A j \in 1 .. Len(out) :
             IsTerminal(out[j]) => (j < Len(out) /\ out[j + 1] = Sentinel))
    /\ [][MainStreamEnded => out' = out]_vars

(***************************************************************************)
(* Termination of one request.  The runtime resumes a handler whose        *)
(* awaited call has settled and every upstream call is answered, so each   *)
(* step of the checks and of the bootstrap is taken once it is possible;   *)
(* the body of the submit response ends at some time, unless the read loop *)
(* is left before.                                                         *)
(***************************************************************************)
Fairness ==
    /\ WF_vars(RejectRequest)
    /\ WF_vars(AcceptRequest("relay"))
    /\ WF_vars(CreateConversation)
    /\ WF_vars(FetchData("relay"))
    /\ WF_vars(SendMessage("relay"))
    /\ WF_vars(ReadDone)

SpecLive == Init /\ [][Next]_vars /\ Fairness

\* the bootstrap has succeeded and the read loop runs
Relaying == pc = "read" /\ "submit" \in succeeded

\* the read loop was left at a finalAnswer or at the end of the body
EndedNormally == pc = "end" /\ exit \in {"final", "done"}

\* the event stream is complete: terminal envelope, sentinel, closed
StreamComplete ==
    /\ ctrl = "closed"
    /\ Len(out) >= 3
    /\ IsTerminal(out[Len(out) - 1])
    /\ out[Len(out)] = Sentinel

\* C28: when the three bootstrap calls have succeeded and the body delivers
\* a finalAnswer or ends, a stream response emits its terminal envelope and
\* the sentinel and closes, and an aggregate request returns its completion;
\* in every run the event stream ends closed or errored, never both.
C28_EveryRequestEnds ==
    /\ (pc = "start") ~> (pc = "end")
    /\ Relaying ~> (pc = "end")
    /\ [](EndedNormally =>
             IF request.stream THEN StreamComplete
             ELSE response.status = 200 /\ response.content = Flat(yielded))
    /\ []((pc = "end" /\ request.stream /\ gen # "none") => ctrl \in {"closed", "errored"})
    /\ [][(ctrl \in {"closed", "errored"}) => (ctrl' = ctrl)]_vars

C28_Witness ==
    /\ request.stream
    /\ EndedNormally
    /\ exit = "final"
    /\ Len(yielded) = 1
    /\ StreamComplete

\* C24: of two requests in progress at once, with their reads taken in any
\* order, each delivers the tokens, keeps the carry-over buffer and reaches
\* the end that it would alone on the same chunks of its own body; every
\* envelope of a request carries that request's id, the two ids and the two
\* session tokens are four different values, and no step changes the locals
\* of both requests.
EnvelopeIds(envelopes) ==
    {envelopes[k].id : k \in {j \in 1 .. Len(envelopes) : envelopes[j] # Sentinel}}

C24_RequestsAreIsolated ==
    /\ [](\A i \in DOMAIN sessions :
             /\ sessions[i].tokens = sessions[i].solo.tokens
             /\ sessions[i].pc = "read" => sessions[i].buffer = sessions[i].solo.buffer
             /\ sessions[i].solo.returned => sessions[i].pc = "end"
             /\ EnvelopeIds(sessions[i].out) \subseteq {sessions[i].id}
             /\ \A k \in 1 .. Len(sessions[i].tokens) : sessions[i].tokens[k] = <<<<"a", "b">>[i]>>)
    /\ [](\A i, j \in DOMAIN sessions :
             (i # j /\ sessions[i].pc # "start" /\ sessions[j].pc # "start") =>
                 Cardinality({sessions[i].id, sessions[i].jar,
                              sessions[j].id, sessions[j].jar}) = 4)
    /\ [][\E i \in DOMAIN sessions : sessions'[i] = sessions[i]]_vars

\* both requests are in the middle of a frame, each with its own carry-over,
\* after the first has delivered "a" and the second "b"
C24_Witness ==
    /\ DOMAIN sessions = 1 .. 2
    /\ sessions[1].pc = "read" /\ sessions[2].pc = "read"
    /\ sessions[1].tokens = <<<<"a">>>> /\ sessions[2].tokens = <<<<"b">>>>
    /\ sessions[1].buffer # <<>> /\ sessions[2].buffer # <<>>
    /\ sessions[1].buffer # sessions[2].buffer
    /\ Len(sessions[1].out) = 2 /\ Len(sessions[2].out) = 2

=============================================================================
